---- MODULE Spec2Model ----
(***************************************************************************)
(* Model of codex-rs/feedback/src/lib.rs: a byte ring buffer (RingBuffer)  *)
(* behind one std::sync::Mutex (FeedbackInner.ring), written by            *)
(* FeedbackWriter::write and read by CodexFeedback::snapshot, each called  *)
(* from any of several threads.                                            *)
(***************************************************************************)
EXTENDS Integers, Sequences, FiniteSets, TLC

\* ------------------------------------------------------------- bounds
\* Largest capacity handed to CodexFeedback::with_capacity.
MaxCap == 4
\* Longest chunk handed to one FeedbackWriter::write call.
MaxChunk == 3
\* Calls (write or snapshot) the threads make in all.
MaxOps == 4

\* The threads that share one CodexFeedback (Arc<FeedbackInner>).
Threads == {1, 2}

\* Value of the mutex's owner field when nobody holds the guard.
NoHolder == 0

VARIABLES
    max,        \* RingBuffer.max
    buf,        \* RingBuffer.buf, oldest byte first
    holder,     \* the thread holding the MutexGuard of FeedbackInner.ring, or NoHolder
    poisoned,   \* the Mutex's poison flag
    pc,         \* pc[t]: where thread t stands in write / snapshot
    arg,        \* arg[t]: the buf argument of thread t's current or last write
    ret,        \* ret[t]: what thread t's last call returned
    snap,       \* snap[t]: the CodexLogSnapshot thread t holds (bytes), with the history length at capture
    sent,       \* sent[t]: bytes thread t has handed to write so far
    ops,        \* calls started so far, by all threads
    hist,       \* history: the chunks push_bytes has applied, concatenated in order of application
    sess,       \* sess[t]: the session_id argument of thread t's current or last snapshot call
    uuids,      \* ConversationIds generated by ConversationId::new() so far
    files,      \* the temporary directory: path -> contents (and the snapshot that wrote them)
    fac,        \* fac[t]: the FeedbackInner the FeedbackMakeWriter of thread t points to
    wri         \* wri[t]: the FeedbackInner the FeedbackWriter of thread t points to

vars == <<max, buf, holder, poisoned, pc, arg, ret, snap, sent, ops, hist,
          sess, uuids, files, fac, wri>>

\* The identifiers, the files and the handles: what write and the lock steps
\* of snapshot leave alone.
rest == <<sess, uuids, files, fac, wri>>

\* ------------------------------------------------------------- values
NoRet == [kind |-> "none", n |-> 0]
OkRet(n) == [kind |-> "ok", n |-> n]
ErrRet == [kind |-> "err", n |-> 0]
SnapRet == [kind |-> "snapshot", n |-> 0]
NoSnap == [taken |-> FALSE, bytes |-> <<>>, at |-> 0, thread_id |-> "", serial |-> 0]
SavedRet(p) == [kind |-> "saved", n |-> 0, path |-> p]
SaveErrRet == [kind |-> "save_err", n |-> 0]
FlushRet == [kind |-> "flush_ok", n |-> 0]
UploadRet(r) == [kind |-> r, n |-> 0]

\* Option<ConversationId>
None == [some |-> FALSE, id |-> 0]
Some(c) == [some |-> TRUE, id |-> c]

\* The ConversationIds of the sessions the callers of snapshot run in.
Sessions == {1, 2}
SessionArgs == {None} \cup {Some(c) : c \in Sessions}

\* The Arc<FeedbackInner> allocations: the one CodexFeedback::with_capacity
\* makes, and no allocation (a handle not yet made).
OriginInner == "inner0"
NoInner == "none"

\* The j-th byte thread t ever writes: the threads write disjoint, strictly
\* increasing byte values (thread 1 starts at 65, "A"), so that the position of
\* every byte in the history can be told from its value.
ByteOf(t, j) == 64 * t + j
ThreadOf(b) == b \div 64
Chunk(t, from, n) == [i \in 1..n |-> ByteOf(t, from + i)]

\* ------------------------------------------------------------- RingBuffer
\* RingBuffer::len
len(b) == Len(b)

\* A pop_back in place of the pop_front: the newest bytes are evicted.
RECURSIVE pop_back_n(_, _)
pop_back_n(b, n) ==
    IF n = 0 THEN b
    ELSE pop_back_n(IF b = <<>> THEN b ELSE SubSeq(b, 1, Len(b) - 1), n - 1)

\* `for _ in 0..to_drop { let _ = self.buf.pop_front(); }`
RECURSIVE pop_front_n(_, _)
pop_front_n(b, n) ==
    IF n = 0 THEN b
    ELSE pop_front_n(IF b = <<>> THEN b ELSE Tail(b), n - 1)

\* The eviction count one too small.
to_drop_short(needed, m) == IF needed > m + 1 THEN needed - m - 1 ELSE 0

\* The eviction count one too large.
to_drop_more(needed, m) == IF needed > m THEN needed - m + 1 ELSE 0

\* `let to_drop = needed - self.max;` under `if needed > self.max`
to_drop(needed, m) == IF needed > m THEN needed - m ELSE 0

\* `let start = data.len() - self.max;`
start(data, m) == Len(data) - m

\* The empty check left out and one slot always kept free (`>=` for `>`).
push_evict_keep_slot(b, m, data) ==
    IF Len(data) >= m THEN <<>>
    ELSE pop_front_n(b, IF len(b) + Len(data) >= m
                        THEN len(b) + Len(data) - m + 1 ELSE 0)

\* The chunk compared with the current length instead of the capacity.
push_evict_vs_len(b, m, data) ==
    IF data = <<>> THEN b
    ELSE IF Len(data) >= len(b) THEN <<>>
    ELSE pop_front_n(b, to_drop(len(b) + Len(data), m))

\* The whole buffer cleared as soon as the chunk does not fit.
push_evict_clear_full(b, m, data) ==
    IF data = <<>> THEN b
    ELSE IF Len(data) >= m THEN <<>>
    ELSE IF len(b) + Len(data) > m THEN <<>> ELSE b

\* push_bytes up to and including the eviction (clear, or the pop_front loop).
push_evict(b, m, data) ==
    IF data = <<>> THEN b
    ELSE IF Len(data) >= m THEN <<>>
    ELSE pop_front_n(b, to_drop(len(b) + Len(data), m))

\* The leading bytes of an oversized chunk kept (`data[..self.max]`).
push_extend_head(b, m, data) ==
    IF data = <<>> THEN b
    ELSE IF Len(data) >= m THEN b \o SubSeq(data, 1, m)
    ELSE b \o data

\* push_bytes from the eviction on: the `extend`.
push_extend(b, m, data) ==
    IF data = <<>> THEN b
    ELSE IF Len(data) >= m THEN b \o SubSeq(data, start(data, m) + 1, Len(data))
    ELSE b \o data

\* The subtraction of line 131 made without the `>=` of line 129.
push_panics_unguarded(b, m, data) ==
    data # <<>> /\ Len(data) - m < 0

\* Whether push_bytes panics: a usize subtraction that underflows (lines 131,
\* 139) or the slice `data[start..]` out of range (line 132), each under the
\* condition the code guards it with.
push_panics(b, m, data) ==
    /\ data # <<>>
    /\ IF Len(data) >= m
       THEN Len(data) - m < 0 \/ start(data, m) > Len(data)
       ELSE len(b) + Len(data) > m /\ len(b) + Len(data) - m < 0

\* RingBuffer::push_bytes as a whole.
push_bytes(b, m, data) == push_extend(push_evict(b, m, data), m, data)

\* RingBuffer::snapshot_bytes: `self.buf.iter().copied().collect()`
RECURSIVE snapshot_bytes(_)
snapshot_bytes(b) ==
    IF b = <<>> THEN <<>> ELSE <<Head(b)>> \o snapshot_bytes(Tail(b))

\* A snapshot that reads the live buffer instead of its own copy.
as_bytes_live(s) == buf

\* CodexLogSnapshot::as_bytes: `&self.bytes`
as_bytes(s) == s.bytes

\* ------------------------------------------------------------- identifiers
\* ConversationId::new(): the n-th identifier generated is unlike every
\* identifier generated before it, those of the running sessions included.
new_conversation_id(n) == Cardinality(Sessions) + n + 1

\* ConversationId's Display: the text of the UUID.
to_string(c) == "00000000-0000-0000-0000-00000000000" \o ToString(c)

\* A snapshot without session that is tagged with the bare fresh identifier.
thread_id_no_prefix(sid, fresh) ==
    IF sid.some THEN to_string(sid.id) ELSE to_string(fresh)

\* `session_id.map(|id| id.to_string())
\*      .unwrap_or("no-active-thread-".to_string() + &ConversationId::new().to_string())`
thread_id(sid, fresh) ==
    IF sid.some THEN to_string(sid.id)
    ELSE "no-active-thread-" \o to_string(fresh)

\* ------------------------------------------------------------- files
\* The temporary directory with no file of this program in it.
NoFiles == [p \in {} |-> [bytes |-> <<>>, by |-> 0]]

\* std::env::temp_dir()
temp_dir == "/tmp"

\* `format!("codex-feedback-{}.log", self.thread_id)`
filename(tid) == "codex-feedback-" \o tid \o ".log"

\* `dir.join(filename)`
join(dir, name) == dir \o "/" \o name

\* A write that opens the file for appending and keeps what it held.
fs_write_append(fs, path, bytes, by) ==
    [p \in DOMAIN fs \cup {path} |->
        IF p = path
        THEN [bytes |-> (IF p \in DOMAIN fs THEN fs[p].bytes ELSE <<>>) \o bytes,
              by |-> by]
        ELSE fs[p]]

\* fs::write: the file created or truncated, then the bytes written. `by` is
\* the serial number of the snapshot the file holds in full, 0 if it holds none
\* (history, not on disk).
fs_write(fs, path, bytes, by) ==
    [p \in DOMAIN fs \cup {path} |->
        IF p = path THEN [bytes |-> bytes, by |-> by] ELSE fs[p]]

\* An upload that fails when it is given no rollout file to attach.
upload_feedback_needs_rollout(classification, reason, include_logs, rollout_path) ==
    IF include_logs /\ ~rollout_path.some THEN "upload_err" ELSE "upload_ok"

\* CodexLogSnapshot::upload_feedback: `Ok(())`
upload_feedback(classification, reason, include_logs, rollout_path) == "upload_ok"

\* FeedbackWriter::flush: `Ok(())`
flush == FlushRet

\* ------------------------------------------------------------- handles
\* A handle made around a FeedbackInner of its own.
arc_new(inner) == "inner1"

\* `self.inner.clone()`: Arc::clone yields the same allocation.
arc_clone(inner) == inner

\* ------------------------------------------------------------- Mutex
\* A write, or a snapshot, that does not wait for the guard.
write_no_lock(h) == TRUE
snapshot_no_lock(h) == TRUE

\* Mutex::lock blocks until no other thread holds the guard.
write_can_lock(h) == h = NoHolder
snapshot_can_lock(h) == h = NoHolder

\* A write that takes the guard out of the PoisonError and goes on.
write_lock_ignore_poison(p) == "guard"

\* `self.inner.ring.lock().map_err(|_| io::ErrorKind::Other)?`
write_lock_result(p) == IF p THEN "err" ELSE "guard"

\* A snapshot that takes the guard out of the PoisonError and goes on.
snapshot_lock_recover(p) == "guard"

\* `self.inner.ring.lock().expect("mutex poisoned")`
snapshot_lock_result(p) == IF p THEN "panic" ELSE "guard"

\* A write that returns with the guard leaked.
write_unlock_leak(h) == h

\* The guard is dropped when write / the block in snapshot ends.
write_unlock(h) == NoHolder
snapshot_unlock(h) == NoHolder

\* A write that reports the bytes it retained, not the bytes it was given.
write_result_retained(data) ==
    OkRet(IF Len(data) > max THEN max ELSE Len(data))

\* `Ok(buf.len())`
write_result(data) == OkRet(Len(data))

\* ------------------------------------------------------------- Init
Init ==
    /\ max \in 0..MaxCap
    /\ buf = <<>>
    /\ holder = NoHolder
    /\ poisoned = FALSE
    /\ pc = [t \in Threads |-> "idle"]
    /\ arg = [t \in Threads |-> <<>>]
    /\ ret = [t \in Threads |-> NoRet]
    /\ snap = [t \in Threads |-> NoSnap]
    /\ sent = [t \in Threads |-> 0]
    /\ ops = 0
    /\ hist = <<>>
    /\ sess = [t \in Threads |-> None]
    /\ uuids = 0
    /\ files = NoFiles
    /\ fac = [t \in Threads |-> OriginInner]
    /\ wri = [t \in Threads |-> OriginInner]

\* ------------------------------------------------------------- FeedbackWriter::write
\* Thread t calls write(buf), on the FeedbackWriter it holds, with the next n
\* bytes of its stream.
CallWrite(t) ==
    /\ pc[t] = "idle"
    /\ wri[t] # NoInner
    /\ ops < MaxOps
    /\ \E n \in 0..MaxChunk :
          /\ arg' = [arg EXCEPT ![t] = Chunk(t, sent[t], n)]
          /\ sent' = [sent EXCEPT ![t] = @ + n]
    /\ ops' = ops + 1
    /\ ret' = [ret EXCEPT ![t] = NoRet]
    /\ pc' = [pc EXCEPT ![t] = "w_lock"]
    /\ UNCHANGED <<max, buf, holder, poisoned, snap, hist>>
    /\ UNCHANGED rest

\* Line 96, mutex not poisoned: the guard is acquired.
WriteLock(t) ==
    /\ pc[t] = "w_lock"
    /\ write_can_lock(holder)
    /\ write_lock_result(poisoned) = "guard"
    /\ holder' = t
    /\ pc' = [pc EXCEPT ![t] = "w_push"]
    /\ UNCHANGED <<max, buf, poisoned, arg, ret, snap, sent, ops, hist>>
    /\ UNCHANGED rest

\* Line 96, mutex poisoned: `?` returns the io::Error; the guard inside the
\* PoisonError is dropped at once.
WriteLockErr(t) ==
    /\ pc[t] = "w_lock"
    /\ write_can_lock(holder)
    /\ write_lock_result(poisoned) = "err"
    /\ ret' = [ret EXCEPT ![t] = ErrRet]
    /\ pc' = [pc EXCEPT ![t] = "idle"]
    /\ UNCHANGED <<max, buf, holder, poisoned, arg, snap, sent, ops, hist>>
    /\ UNCHANGED rest

\* Line 97, first half of push_bytes: the empty check and the eviction. A
\* panic in push_bytes unwinds through the guard, which poisons the mutex as
\* it is dropped.
WriteEvict(t) ==
    /\ pc[t] = "w_push"
    /\ IF push_panics(buf, max, arg[t])
       THEN /\ poisoned' = TRUE
            /\ holder' = NoHolder
            /\ pc' = [pc EXCEPT ![t] = "panicked"]
            /\ UNCHANGED buf
       ELSE /\ buf' = push_evict(buf, max, arg[t])
            /\ pc' = [pc EXCEPT ![t] = "w_extend"]
            /\ UNCHANGED <<holder, poisoned>>
    /\ UNCHANGED <<max, arg, ret, snap, sent, ops, hist>>
    /\ UNCHANGED rest

\* Line 97, second half of push_bytes (the extend), then line 98: Ok(buf.len())
\* is returned and the guard dropped.
WriteExtend(t) ==
    /\ pc[t] = "w_extend"
    /\ buf' = push_extend(buf, max, arg[t])
    /\ hist' = hist \o arg[t]
    /\ holder' = write_unlock(holder)
    /\ ret' = [ret EXCEPT ![t] = write_result(arg[t])]
    /\ pc' = [pc EXCEPT ![t] = "idle"]
    /\ UNCHANGED <<max, poisoned, arg, snap, sent, ops>>
    /\ UNCHANGED rest

\* ------------------------------------------------------------- CodexFeedback::snapshot
\* Thread t calls snapshot(sid).
CallSnapshotWith(t, sid) ==
    /\ pc[t] = "idle"
    /\ ops < MaxOps
    /\ ops' = ops + 1
    /\ ret' = [ret EXCEPT ![t] = NoRet]
    /\ sess' = [sess EXCEPT ![t] = sid]
    /\ pc' = [pc EXCEPT ![t] = "s_lock"]
    /\ UNCHANGED <<max, buf, holder, poisoned, arg, snap, sent, hist>>
    /\ UNCHANGED <<uuids, files, fac, wri>>

\* Thread t calls snapshot(None): no session is active.
CallSnapshot(t) == CallSnapshotWith(t, None)

\* Line 51, mutex not poisoned.
SnapshotLock(t) ==
    /\ pc[t] = "s_lock"
    /\ snapshot_can_lock(holder)
    /\ snapshot_lock_result(poisoned) = "guard"
    /\ holder' = t
    /\ pc' = [pc EXCEPT ![t] = "s_copy"]
    /\ UNCHANGED <<max, buf, poisoned, arg, ret, snap, sent, ops, hist>>
    /\ UNCHANGED rest

\* Line 51, mutex poisoned: expect panics, the thread unwinds and never returns.
SnapshotPanic(t) ==
    /\ pc[t] = "s_lock"
    /\ snapshot_can_lock(holder)
    /\ snapshot_lock_result(poisoned) = "panic"
    /\ pc' = [pc EXCEPT ![t] = "panicked"]
    /\ UNCHANGED <<max, buf, holder, poisoned, arg, ret, snap, sent, ops, hist>>
    /\ UNCHANGED rest

\* Lines 52-59: the copy under the guard, the guard dropped at the end of the
\* block, the CodexLogSnapshot returned. The argument of unwrap_or is built
\* whether or not a session_id was given, so ConversationId::new() runs in
\* every call; the identifier it yields also serves as the snapshot's serial
\* number (history, not a field of CodexLogSnapshot).
SnapshotCopy(t) ==
    /\ pc[t] = "s_copy"
    /\ snap' = [snap EXCEPT ![t] =
                  [taken |-> TRUE, bytes |-> snapshot_bytes(buf), at |-> Len(hist),
                   thread_id |-> thread_id(sess[t], new_conversation_id(uuids)),
                   serial |-> new_conversation_id(uuids)]]
    /\ uuids' = uuids + 1
    /\ holder' = snapshot_unlock(holder)
    /\ ret' = [ret EXCEPT ![t] = SnapRet]
    /\ pc' = [pc EXCEPT ![t] = "idle"]
    /\ UNCHANGED <<max, buf, poisoned, arg, sent, ops, hist>>
    /\ UNCHANGED <<sess, files, fac, wri>>

\* ------------------------------------------------------------- environment
\* Some other holder of the guard (code of the crate outside write and snapshot,
\* which alone can reach the private field) panics while holding it: std marks
\* the mutex poisoned as the guard is dropped during unwinding.
HolderPanics ==
    /\ holder = NoHolder
    /\ ~poisoned
    /\ poisoned' = TRUE
    /\ UNCHANGED <<max, buf, holder, pc, arg, ret, snap, sent, ops, hist>>
    /\ UNCHANGED rest

Next ==
    \/ \E t \in Threads : CallWrite(t)
    \/ \E t \in Threads : WriteLock(t)
    \/ \E t \in Threads : WriteLockErr(t)
    \/ \E t \in Threads : WriteEvict(t)
    \/ \E t \in Threads : WriteExtend(t)
    \/ \E t \in Threads : CallSnapshot(t)
    \/ \E t \in Threads : SnapshotLock(t)
    \/ \E t \in Threads : SnapshotPanic(t)
    \/ \E t \in Threads : SnapshotCopy(t)
    \/ HolderPanics

Spec == Init /\ [][Next]_vars

\* A thread inside write or snapshot keeps running, and a thread waiting for
\* the mutex gets it if it is free again and again (a fair lock).
Fairness ==
    \A t \in Threads :
       /\ WF_vars(WriteEvict(t) \/ WriteExtend(t) \/ SnapshotCopy(t))
       /\ SF_vars(WriteLock(t) \/ WriteLockErr(t)
                    \/ SnapshotLock(t) \/ SnapshotPanic(t))

SpecFair == Init /\ [][Next]_vars /\ Fairness

\* ------------------------------------------------------------- handles
\* CodexFeedback::make_writer: a FeedbackMakeWriter on the shared FeedbackInner.
MakeFactory(t) ==
    /\ pc[t] = "idle"
    /\ fac' = [fac EXCEPT ![t] = arc_clone(OriginInner)]
    /\ UNCHANGED <<max, buf, holder, poisoned, pc, arg, ret, snap, sent, ops, hist>>
    /\ UNCHANGED <<sess, uuids, files, wri>>

\* #[derive(Clone)] of FeedbackMakeWriter: thread t goes on with the clone.
CloneFactory(t) ==
    /\ pc[t] = "idle"
    /\ fac[t] # NoInner
    /\ fac' = [fac EXCEPT ![t] = arc_clone(fac[t])]
    /\ UNCHANGED <<max, buf, holder, poisoned, pc, arg, ret, snap, sent, ops, hist>>
    /\ UNCHANGED <<sess, uuids, files, wri>>

\* FeedbackMakeWriter::make_writer: a FeedbackWriter on the factory's FeedbackInner.
MakeWriter(t) ==
    /\ pc[t] = "idle"
    /\ fac[t] # NoInner
    /\ wri' = [wri EXCEPT ![t] = arc_clone(fac[t])]
    /\ UNCHANGED <<max, buf, holder, poisoned, pc, arg, ret, snap, sent, ops, hist>>
    /\ UNCHANGED <<sess, uuids, files, fac>>

\* FeedbackWriter::flush
Flush(t) ==
    /\ pc[t] = "idle"
    /\ wri[t] # NoInner
    /\ ret' = [ret EXCEPT ![t] = flush]
    /\ UNCHANGED <<max, buf, holder, poisoned, pc, arg, snap, sent, ops, hist>>
    /\ UNCHANGED rest

\* ------------------------------------------------------------- CodexLogSnapshot
\* The path save_to_temp_file writes the snapshot s to.
save_path(s) == join(temp_dir, filename(s.thread_id))

\* save_to_temp_file on the snapshot thread t holds, fs::write succeeding.
Save(t) ==
    /\ pc[t] = "idle"
    /\ snap[t].taken
    /\ files' = fs_write(files, save_path(snap[t]), as_bytes(snap[t]), snap[t].serial)
    /\ ret' = [ret EXCEPT ![t] = SavedRet(save_path(snap[t]))]
    /\ UNCHANGED <<max, buf, holder, poisoned, pc, arg, snap, sent, ops, hist>>
    /\ UNCHANGED <<sess, uuids, fac, wri>>

\* save_to_temp_file, fs::write failing: either the file could not be created
\* (nothing changes) or the write stopped after k of the bytes.
SaveFail(t) ==
    /\ pc[t] = "idle"
    /\ snap[t].taken
    /\ \/ files' = files
       \/ \E k \in 0..(Len(as_bytes(snap[t])) - 1) :
             files' = fs_write(files, save_path(snap[t]),
                               SubSeq(as_bytes(snap[t]), 1, k), 0)
    /\ ret' = [ret EXCEPT ![t] = SaveErrRet]
    /\ UNCHANGED <<max, buf, holder, poisoned, pc, arg, snap, sent, ops, hist>>
    /\ UNCHANGED <<sess, uuids, fac, wri>>

\* The arguments of upload_feedback.
Classifications == {"bug", "bad_result", "good_result", "other"}
Reasons == {None, Some(1)}
RolloutPaths == {None, Some(1)}

\* upload_feedback on the snapshot thread t holds.
Upload(t) ==
    /\ pc[t] = "idle"
    /\ snap[t].taken
    /\ ops < MaxOps
    /\ ops' = ops + 1
    /\ \E c \in Classifications, r \in Reasons, l \in BOOLEAN, rp \in RolloutPaths :
          ret' = [ret EXCEPT ![t] = UploadRet(upload_feedback(c, r, l, rp))]
    /\ UNCHANGED <<max, buf, holder, poisoned, pc, arg, snap, sent, hist>>
    /\ UNCHANGED rest

\* ------------------------------------------------------------- one caller, every operation
\* The thread that makes its handles, writes, snapshots with and without a
\* session, saves and uploads; no outside holder of the guard panics here.
FileThreads == {1}

\* A capacity the chunks overflow, and one they rarely reach.
InitFiles ==
    /\ max \in {1, MaxCap}
    /\ buf = <<>>
    /\ holder = NoHolder
    /\ poisoned = FALSE
    /\ pc = [t \in Threads |-> "idle"]
    /\ arg = [t \in Threads |-> <<>>]
    /\ ret = [t \in Threads |-> NoRet]
    /\ snap = [t \in Threads |-> NoSnap]
    /\ sent = [t \in Threads |-> 0]
    /\ ops = 0
    /\ hist = <<>>
    /\ sess = [t \in Threads |-> None]
    /\ uuids = 0
    /\ files = NoFiles
    /\ fac = [t \in Threads |-> NoInner]
    /\ wri = [t \in Threads |-> NoInner]

NextFiles ==
    \/ \E t \in FileThreads : MakeFactory(t)
    \/ \E t \in FileThreads : CloneFactory(t)
    \/ \E t \in FileThreads : MakeWriter(t)
    \/ \E t \in FileThreads : CallWrite(t)
    \/ \E t \in FileThreads : WriteLock(t)
    \/ \E t \in FileThreads : WriteEvict(t)
    \/ \E t \in FileThreads : WriteExtend(t)
    \/ \E t \in FileThreads : Flush(t)
    \/ \E t \in FileThreads : \E sid \in SessionArgs : CallSnapshotWith(t, sid)
    \/ \E t \in FileThreads : SnapshotLock(t)
    \/ \E t \in FileThreads : SnapshotCopy(t)
    \/ \E t \in FileThreads : Save(t)
    \/ \E t \in FileThreads : SaveFail(t)
    \/ \E t \in FileThreads : Upload(t)

SpecFiles == InitFiles /\ [][NextFiles]_vars

\* ------------------------------------------------------------- properties
\* The last n elements of s.
LastN(s, n) == SubSeq(s, Len(s) - n + 1, Len(s))

\* What a buffer of capacity max retains of the write history h.
Retained(h) == IF Len(h) >= max THEN LastN(h, max) ELSE h

\* The write history as it was when thread t's snapshot was captured.
HistAt(t) == SubSeq(hist, 1, snap[t].at)

\* The bytes of thread t in s, in the order they stand in s.
BytesOf(s, t) == SelectSeq(s, LAMBDA b : ThreadOf(b) = t)

\* C1: once the bytes written in all reach the capacity, the buffer holds
\* exactly the last `capacity` bytes of the concatenation of the chunks in the
\* order they were applied; so does every snapshot, for the history at its capture.
C1_SuffixRetention ==
    /\ (holder = NoHolder /\ Len(hist) >= max) => buf = LastN(hist, max)
    /\ \A t \in Threads :
          (snap[t].taken /\ snap[t].at >= max)
              => as_bytes(snap[t]) = LastN(HistAt(t), max)

\* C1 witness: capacity 3, "ABC" then "DE" written by thread 1, snapshot "CDE".
C1_Witness ==
    /\ max = 3
    /\ hist = <<65, 66, 67, 68, 69>>
    /\ arg[1] = <<68, 69>>
    /\ buf = <<67, 68, 69>>
    /\ snap[1].taken /\ snap[1].at = 5 /\ as_bytes(snap[1]) = <<67, 68, 69>>

\* C2: in every state, also in the middle of a write, the ring buffer holds at
\* most `max` bytes, and so does every snapshot.
C2_LengthBound ==
    /\ Len(buf) <= max
    /\ \A t \in Threads : Len(as_bytes(snap[t])) <= max

\* C2 witness: a full buffer that has evicted, seen by a snapshot, after writes
\* of both threads.
C2_Witness ==
    /\ max > 0
    /\ Len(buf) = max
    /\ Len(hist) > max
    /\ BytesOf(hist, 1) # <<>> /\ BytesOf(hist, 2) # <<>>
    /\ \E t \in Threads : snap[t].taken /\ Len(as_bytes(snap[t])) = max

\* C3: writes are applied whole and one after another. Whenever the lock is
\* free the buffer is what the history of whole writes retains; every snapshot
\* is what the history at its capture retains; the bytes of each thread stand
\* in the history in the order the thread wrote them; and two threads that
\* each wrote one chunk of n bytes against capacity 2n leave exactly the one
\* chunk followed by the other.
C3_WritesSerialized ==
    /\ holder = NoHolder => buf = Retained(hist)
    /\ \A t \in Threads :
          snap[t].taken => as_bytes(snap[t]) = Retained(HistAt(t))
    /\ \A t \in Threads :
          BytesOf(hist, t) = Chunk(t, 0, Len(BytesOf(hist, t)))
    /\ \A n \in 1..MaxChunk :
          ( /\ max = 2 * n
            /\ holder = NoHolder
            /\ \A t \in Threads :
                  ret[t].kind = "ok" /\ Len(arg[t]) = n /\ sent[t] = n )
          => /\ Len(buf) = 2 * n
             /\ buf \in {arg[1] \o arg[2], arg[2] \o arg[1]}

\* C3 witness: capacity 4, each thread wrote its first two bytes concurrently,
\* the write of thread 2 applied first.
C3_Witness ==
    /\ max = 4
    /\ holder = NoHolder
    /\ \A t \in Threads : ret[t].kind = "ok" /\ Len(arg[t]) = 2 /\ sent[t] = 2
    /\ buf = arg[2] \o arg[1]

\* C4: the bytes of a snapshot a thread holds change only when that thread
\* takes its next snapshot: no step of any write changes them.
C4_SnapshotIndependent ==
    [][ \A t \in Threads :
          (snap[t].taken /\ pc[t] # "s_copy")
              => (as_bytes(snap[t]))' = as_bytes(snap[t]) ]_vars

\* C4 witness: a snapshot with bytes, none of which is still in the buffer.
C4_Witness ==
    \E t \in Threads :
       /\ snap[t].taken
       /\ as_bytes(snap[t]) # <<>>
       /\ buf # <<>>
       /\ \A i \in 1..Len(buf) : \A j \in 1..Len(as_bytes(snap[t])) :
             buf[i] # as_bytes(snap[t])[j]

\* Thread t takes a step of its own here.
Steps(t) == pc'[t] # pc[t]

\* C5: with the mutex poisoned, the write that reaches the lock returns the
\* error to its caller (it neither panics nor goes on), and no step changes
\* the buffer: nothing is evicted and nothing appended.
C5_PoisonedWriteErrs ==
    [][ /\ \A t \in Threads :
             (poisoned /\ pc[t] = "w_lock" /\ Steps(t))
                 => (pc'[t] = "idle" /\ ret'[t] = ErrRet)
        /\ poisoned => (buf' = buf /\ hist' = hist) ]_vars

\* C5 witness: a write of a non-empty chunk has returned the error, the
\* buffer holding bytes of earlier writes.
C5_Witness ==
    \E t \in Threads :
       /\ poisoned
       /\ pc[t] = "idle" /\ ret[t] = ErrRet /\ arg[t] # <<>>
       /\ buf # <<>>

\* C6: with the mutex poisoned, the snapshot that reaches the lock panics: the
\* thread never returns, and holds no new snapshot; the write that reaches the
\* lock in the same state returns instead.
C6_PoisonedSnapshotPanics ==
    [][ \A t \in Threads :
          /\ (poisoned /\ pc[t] = "s_lock" /\ Steps(t))
                => (pc'[t] = "panicked" /\ snap'[t] = snap[t] /\ ret'[t] = NoRet)
          /\ pc[t] = "panicked"
                => (pc'[t] = "panicked" /\ snap'[t] = snap[t] /\ ret'[t] = NoRet)
          /\ (poisoned /\ pc[t] = "w_lock" /\ Steps(t))
                => pc'[t] = "idle" ]_vars

\* C6 witness: on the one poisoned mutex a snapshot has panicked and a write
\* has returned the error.
C6_Witness ==
    \E t, u \in Threads :
       /\ poisoned
       /\ pc[t] = "panicked" /\ ~snap[t].taken
       /\ pc[u] = "idle" /\ ret[u] = ErrRet

\* C7: a write that returns Ok returns the length of the chunk it was given.
C7_FullLengthReported ==
    \A t \in Threads : ret[t].kind = "ok" => ret[t].n = Len(arg[t])

\* C7 witness: Ok(n) for a chunk longer than the capacity, fewer than n bytes
\* retained.
C7_Witness ==
    \E t \in Threads :
       /\ max > 0
       /\ ret[t].kind = "ok" /\ ret[t].n = Len(arg[t])
       /\ Len(arg[t]) > max
       /\ Len(buf) < ret[t].n

\* C8: no step of a write of the empty chunk changes the buffer.
C8_EmptyWriteNoOp ==
    [][ \A t \in Threads :
          (arg[t] = <<>> /\ pc[t] \in {"w_lock", "w_push", "w_extend"} /\ Steps(t))
              => buf' = buf ]_vars

\* C8 witness: thread 1 has written the empty chunk to the full buffer that
\* its own earlier write filled.
C8_Witness ==
    /\ max > 0
    /\ Len(buf) = max
    /\ sent[2] = 0
    /\ pc[1] = "idle" /\ ret[1] = OkRet(0) /\ arg[1] = <<>>

\* C9: no step of a snapshot changes the buffer, and two snapshots with no
\* write applied between them (the history as long at the one capture as at
\* the other) hold the same bytes.
C9_SnapshotReadOnly ==
    /\ [][ \A t \in Threads :
             (pc[t] \in {"s_lock", "s_copy"} /\ Steps(t)) => buf' = buf ]_vars
    /\ [](\A t, u \in Threads :
             (snap[t].taken /\ snap[u].taken /\ snap[t].at = snap[u].at)
                 => as_bytes(snap[t]) = as_bytes(snap[u]))

\* C9 witness: both threads hold a snapshot of the same non-empty buffer.
C9_Witness ==
    /\ snap[1].taken /\ snap[2].taken
    /\ snap[1].at = snap[2].at
    /\ as_bytes(snap[1]) # <<>>
    /\ as_bytes(snap[1]) = buf
    /\ pc[1] = "idle" /\ pc[2] = "idle"

\* Thread t is inside a call of write or snapshot.
Started(t) == pc[t] \in {"w_lock", "w_push", "w_extend", "s_lock", "s_copy"}

\* C10: a thread holds the guard exactly from its lock to the end of its
\* critical section (never while it waits for the lock, never after it has
\* returned), and under a fair lock every started write or snapshot ends.
C10_NoDeadlock ==
    /\ [](\A t \in Threads :
             holder = t <=> pc[t] \in {"w_push", "w_extend", "s_copy"})
    /\ \A t \in Threads : Started(t) ~> ~Started(t)

\* C10 witness: one thread waits for the lock the other holds.
C10_Witness ==
    \E t, u \in Threads :
       /\ pc[t] \in {"w_lock", "s_lock"}
       /\ holder = u /\ u # t
       /\ pc[u] = "w_extend"

\* C11: each snapshot saved has a file of its own: a save that succeeds leaves
\* every file that holds another snapshot in place, with the bytes it had.
C11_OneFilePerSnapshot ==
    [][ \A t \in Threads :
          ret'[t].kind = "saved"
          => \A p \in DOMAIN files :
                (files[p].by # 0 /\ files[p].by # snap[t].serial)
                    => (p \in DOMAIN files' /\ files'[p].bytes = files[p].bytes) ]_vars

\* C12: after a save that succeeded, the path returned is
\* <temp dir>/codex-feedback-<identifier>.log and the file there holds exactly
\* the bytes the snapshot captured, whatever the buffer holds by now; the save
\* changes neither the buffer nor the snapshot.
C12_SaveWritesSnapshot ==
    /\ [](\A t \in Threads :
             ret[t].kind = "saved"
             => /\ ret[t].path = "/tmp/codex-feedback-" \o snap[t].thread_id \o ".log"
                /\ ret[t].path \in DOMAIN files
                /\ files[ret[t].path].bytes = snap[t].bytes
                /\ files[ret[t].path].bytes = Retained(HistAt(t)))
    /\ [][ files' # files
             => (buf' = buf /\ hist' = hist /\ snap' = snap
                 /\ holder' = holder /\ poisoned' = poisoned) ]_vars

\* C12 witness: a snapshot of "A" saved after a further write changed the buffer.
C12_Witness ==
    /\ ret[1].kind = "saved"
    /\ snap[1].bytes = <<65>>
    /\ files[ret[1].path].bytes = <<65>>
    /\ buf # snap[1].bytes
    /\ Len(hist) > snap[1].at

\* C13: the snapshot returned for Some(id) is tagged with the text of id; the
\* one returned for None with "no-active-thread-" and the text of a fresh
\* identifier, which is the text of no session's identifier, differs from the
\* tag of the snapshot held before, and names a file not yet on disk.
C13_IdentifierTag ==
    [][ \A t \in Threads :
          (pc[t] = "s_copy" /\ Steps(t))
          => IF sess[t].some
             THEN snap'[t].thread_id = to_string(sess[t].id)
             ELSE /\ snap'[t].thread_id
                        = "no-active-thread-" \o to_string(snap'[t].serial)
                  /\ \A c \in Sessions : snap'[t].thread_id # to_string(c)
                  /\ snap'[t].serial \notin Sessions
                  /\ snap[t].taken => snap'[t].thread_id # snap[t].thread_id
                  /\ ("/tmp/codex-feedback-" \o snap'[t].thread_id \o ".log")
                        \notin DOMAIN files ]_vars

\* C13 witness: files of a session-tagged and of a synthesized snapshot are on
\* disk, and the thread holds a second synthesized snapshot.
C13_Witness ==
    /\ snap[1].taken /\ ~sess[1].some /\ pc[1] = "idle"
    /\ \E p, q \in DOMAIN files :
          /\ p = "/tmp/codex-feedback-" \o to_string(1) \o ".log"
          /\ q # p
          /\ files[q].by \notin {0, snap[1].serial}
          /\ files[p].by # 0

\* C14: every handle points to the one FeedbackInner of the origin; making a
\* handle changes neither the buffer, the lock, a snapshot nor a file; and what
\* a writer was given is in the history the next snapshot is taken from.
C14_WritersShareBuffer ==
    /\ [](\A t \in Threads :
             /\ fac[t] \in {NoInner, OriginInner}
             /\ wri[t] \in {NoInner, OriginInner})
    /\ [][ (fac' # fac \/ wri' # wri)
             => (buf' = buf /\ hist' = hist /\ holder' = holder
                 /\ poisoned' = poisoned /\ snap' = snap /\ files' = files) ]_vars
    /\ [](\A t \in FileThreads :
             /\ (ret[t].kind = "ok" /\ pc[t] = "idle")
                   => LastN(hist, Len(arg[t])) = arg[t]
             /\ snap[t].taken => snap[t].bytes = Retained(HistAt(t)))

\* C14 witness: the writer made through the factory, a chunk written with it,
\* and the snapshot taken next holding that chunk at its end.
C14_Witness ==
    /\ fac[1] = OriginInner /\ wri[1] = OriginInner
    /\ arg[1] # <<>> /\ Len(arg[1]) <= max
    /\ snap[1].taken /\ snap[1].at = Len(hist)
    /\ Len(snap[1].bytes) >= Len(arg[1])
    /\ LastN(snap[1].bytes, Len(arg[1])) = arg[1]

\* C15: upload_feedback (the one call that counts as a call and leaves the
\* caller where it stands) returns Ok and changes nothing: not the buffer, the
\* history, a snapshot, a file, the lock or a handle.
C15_UploadNoOp ==
    [][ (ops' = ops + 1 /\ pc' = pc)
          => /\ \E t \in Threads :
                  /\ ret'[t] = UploadRet("upload_ok")
                  /\ \A u \in Threads \ {t} : ret'[u] = ret[u]
             /\ buf' = buf /\ hist' = hist /\ snap' = snap /\ files' = files
             /\ holder' = holder /\ poisoned' = poisoned
             /\ fac' = fac /\ wri' = wri /\ uuids' = uuids ]_vars

\* C15 witness: an upload has returned Ok with bytes in the buffer and a
\* snapshot saved on disk.
C15_Witness ==
    /\ ret[1] = UploadRet("upload_ok")
    /\ buf # <<>>
    /\ snap[1].taken /\ snap[1].bytes # <<>>
    /\ \E p \in DOMAIN files : files[p].by = snap[1].serial

\* The smaller of two numbers.
Min(a, b) == IF a < b THEN a ELSE b

\* C16: for a non-empty chunk shorter than the capacity the eviction drops
\* exactly max(0, length + len(chunk) - capacity) bytes from the front, and the
\* extend appends the whole chunk at the back.
C16_MinimalEviction ==
    [][ \A t \in Threads :
          (Steps(t) /\ arg[t] # <<>> /\ Len(arg[t]) < max)
          => /\ pc[t] = "w_push"
                => LET over == Len(buf) + Len(arg[t]) - max
                       k == IF over > 0 THEN over ELSE 0
                   IN  /\ pc'[t] = "w_extend"
                       /\ buf' = SubSeq(buf, k + 1, Len(buf))
             /\ pc[t] = "w_extend" => buf' = buf \o arg[t] ]_vars

\* C16 witness: thread 1 alone has written; its last chunk, shorter than the
\* capacity, did not fit, and the buffer is full with that chunk at its back.
C16_Witness ==
    /\ sent[2] = 0
    /\ pc[1] = "idle" /\ ret[1].kind = "ok"
    /\ arg[1] # <<>> /\ Len(arg[1]) < max
    /\ Len(hist) > max
    /\ Len(buf) = max
    /\ LastN(buf, Len(arg[1])) = arg[1]
    /\ buf[1] # hist[1]

\* C17: a chunk at least as long as the capacity replaces the contents: the
\* eviction leaves the buffer empty and the extend leaves exactly the trailing
\* `capacity` bytes of the chunk.
C17_OversizedChunk ==
    [][ \A t \in Threads :
          (Steps(t) /\ arg[t] # <<>> /\ Len(arg[t]) >= max)
          => /\ pc[t] = "w_push" => (pc'[t] = "w_extend" /\ buf' = <<>>)
             /\ pc[t] = "w_extend"
                => buf' = SubSeq(arg[t], Len(arg[t]) - max + 1, Len(arg[t])) ]_vars

\* C17 witness: a chunk longer than the capacity written over earlier bytes.
C17_Witness ==
    \E t \in Threads :
       /\ max > 0
       /\ pc[t] = "idle" /\ ret[t].kind = "ok"
       /\ Len(arg[t]) > max
       /\ Len(hist) > Len(arg[t])
       /\ holder = NoHolder
       /\ buf = LastN(arg[t], max)

\* C18: while fewer bytes than the capacity have been written in all, the
\* buffer is the whole write history, nothing evicted.
C18_NoEvictionBelowCapacity ==
    ((\A t \in Threads : pc[t] # "w_extend") /\ Len(hist) < max)
        => (buf = hist /\ Len(buf) = Len(hist))

\* C18 witness: both threads have written, the buffer not yet full.
C18_Witness ==
    /\ holder = NoHolder
    /\ Len(hist) < max
    /\ BytesOf(hist, 1) # <<>> /\ BytesOf(hist, 2) # <<>>
    /\ buf = hist

\* C19: at every point where the lock is free the buffer length is
\* min(capacity, bytes written so far), which never decreases; a write that
\* ends leaves min(capacity, length before it + len(chunk)); and of two
\* snapshots the later is at least as long, so after a snapshot of `capacity`
\* bytes every later one has `capacity` bytes.
C19_LengthMonotone ==
    /\ [](holder = NoHolder => Len(buf) = Min(max, Len(hist)))
    /\ [][ \A t \in Threads :
             (pc[t] = "w_extend" /\ Steps(t))
                 => Len(buf') = Min(max, Min(max, Len(hist)) + Len(arg[t])) ]_vars
    /\ [](\A t, u \in Threads :
             (snap[t].taken /\ snap[u].taken /\ snap[t].at <= snap[u].at)
                 => /\ Len(as_bytes(snap[t])) <= Len(as_bytes(snap[u]))
                    /\ Len(as_bytes(snap[t])) = max
                          => Len(as_bytes(snap[u])) = max)

\* C19 witness: a snapshot of `capacity` bytes, and a snapshot taken after a
\* further write, again of `capacity` bytes.
C19_Witness ==
    \E t, u \in Threads :
       /\ max > 0
       /\ snap[t].taken /\ snap[u].taken
       /\ Len(as_bytes(snap[t])) = max
       /\ snap[u].at > snap[t].at
       /\ Len(as_bytes(snap[u])) = max
       /\ as_bytes(snap[u]) # as_bytes(snap[t])

\* C20: no step of write or snapshot poisons the mutex (the step that sets the
\* poison flag is a step of no thread), so as long as no outside holder of the
\* guard has panicked no write has returned the error and no snapshot has
\* panicked.
C20_NoSelfPoison ==
    /\ [][ (~poisoned /\ poisoned') => (pc' = pc /\ ret' = ret /\ buf' = buf) ]_vars
    /\ [](~poisoned =>
            \A t \in Threads : ret[t] # ErrRet /\ pc[t] # "panicked")

\* C20 witness: every call of the budget made and returned, writes and
\* snapshots of both threads among them, the mutex not poisoned.
C20_Witness ==
    /\ ~poisoned
    /\ ops = MaxOps
    /\ \A t \in Threads : pc[t] = "idle" /\ snap[t].taken
    /\ BytesOf(hist, 1) # <<>> /\ BytesOf(hist, 2) # <<>>
    /\ Len(hist) > max

====
